---------------------------- MODULE Spec2Model ----------------------------
(***************************************************************************)
(* The "punched" open 3-qubit chain of punch_project-open_chain.ipynb.     *)
(*                                                                         *)
(* The notebook builds H = -(J_1/2) XXI - (J_2/2) IZZ and the propagator   *)
(* U_dt = expm(-i H dt) (cell 47facf3e), then runs the trajectory loop of  *)
(* cell b1d49df6: for every trajectory a new circuit `chain`, and in every *)
(* step an Estimator job on (chain, H) whose value is added to             *)
(* expvals[step], followed by chain.append(U_dt) and chain.measure(2, 0);  *)
(* after the loops expvals /= num_trajectories.                            *)
(*                                                                         *)
(* Numbers.  Amplitudes are Gaussian integers <<re, im>> over a common     *)
(* denominator and every real value is an exact reduced fraction           *)
(* [num, den].  The two Pauli terms anticommute, so H.H = 2.I and          *)
(*     expm(-i H dt) = cos(w dt) I - i (sin(w dt)/w) H,   w = sqrt(2).     *)
(* A step duration is therefore given by the pair                          *)
(*     (cos(w dt), sin(w dt)/w) = (ca/d, cb/d),  ca^2 + 2 cb^2 = d^2.      *)
(* The notebook's dt = 0.5 gives (0.7602.., 0.4593..), which is not        *)
(* rational; DtPoints holds the rational points 7/9, 4/9 (dt = 0.4806..)   *)
(* and 1/3, 2/3 (dt = 0.8704..).                                           *)
(*                                                                         *)
(* The Estimator is modelled by what it estimates: the expectation value   *)
(* of the observable in the state the circuit prepares from |000>, a mid-  *)
(* circuit measurement being averaged over its outcomes with their Born    *)
(* weights (every job executes the whole circuit again).  The sampling     *)
(* error of a finite number of shots is not modelled.                      *)
(*                                                                         *)
(* Specifications.  Spec is the trajectory loop.  ShotSpec is one shot of  *)
(* a circuit on the backend: the loop's circuits and the sampler cell's    *)
(* circuit, which ends with measure_all(); a measurement draws u on a grid *)
(* of [0, 1) and reads the outcome by the inverse of the cumulative        *)
(* distribution.  BuildSpec is the construction of H and U_dt from Pauli   *)
(* terms, in the open-chain notebook and in the single-trajectory one      *)
(* (J_1 = J_2 = -2.0).  SiteSpec is the measurement of one qubit under a   *)
(* Hamiltonian c P on that qubit.  H and U_dt are state, as the globals    *)
(* they are in the notebook.  VqeSpec is the VQE notebook's minimization   *)
(* of the energy of the Rz, Rx ansatz, as a descent over angles with       *)
(* rational cosine and sine of half the angle; PostSpec is the notebook's  *)
(* post-processing of the optimal parameters.                              *)
(***************************************************************************)
EXTENDS Integers, Sequences, FiniteSets, TLC

VARIABLES
    num_trajectories,   \* configuration: number of trajectories (M)
    num_steps,          \* configuration: number of steps (N)
    dt,                 \* configuration: the step duration, a member of DtPoints
    pc,                 \* position of the notebook's control flow
    trajectory,         \* outer loop counter
    step,               \* inner loop counter
    pos,                \* position in the body of the inner loop, 1..3
    chain,              \* the circuit: a sequence of "U", "M", "MA" instructions
    expvals,            \* the accumulator array, 0-indexed
    record,             \* history: what the running trajectory has recorded
    records,            \* history: the records of the finished trajectories
    log,                \* history: the statements the running trajectory executed
    adds,               \* history: number of additions each slot received
    divisions,          \* history: number of times expvals was divided
    ip,                 \* shot execution: index of the next instruction of chain
    psi,                \* shot execution: the state vector, [v, n] for v/sqrt(n)
    outcomes,           \* shot execution: the outcomes drawn so far
    draw,               \* shot execution: the last random draw and the state it met
    meas,               \* shot execution: the register written by measure_all
    terms,              \* the Pauli terms the Hamiltonian is built from
    variant,            \* which notebook's cell built the Hamiltonian
    hamiltonian,        \* the global H, as its matrix
    propagator,         \* the global U_dt, as d * its matrix
    theta,              \* VQE: the parameters the ansatz is evaluated at
    opt_params          \* VQE: the array of optimal parameters, result.x

vars == <<num_trajectories, num_steps, dt, pc, trajectory, step, pos, chain,
          expvals, record, records, log, adds, divisions, ip, psi, outcomes,
          draw, meas, terms, variant, hamiltonian, propagator, theta, opt_params>>

loopVars == <<pc, trajectory, step, pos, expvals, record, records, log, adds,
              divisions>>

shotVars == <<ip, psi, outcomes, draw, meas>>

opVars == <<terms, variant, hamiltonian, propagator>>

vqeVars == <<theta, opt_params>>

configVars == <<num_trajectories, num_steps, dt>>

----------------------------------------------------------------------------
(* Bounds of the model *)

MaxTrajectories == 3

MaxSteps == 3

MaxShotSteps == 4

\* The random numbers of a backend are modelled on a grid of DrawGrid points
DrawGrid == 8

\* Coefficients of the Pauli terms tried: -MaxCoeff .. MaxCoeff
MaxCoeff == 1

\* Real and imaginary parts of the amplitudes tried: -MaxAmp .. MaxAmp
MaxAmp == 1

(* Program constants *)

J_1 == 2

J_2 == 2

NumQubits == 3

\* theta = ParameterVector("theta", 6)
NumParams == 6

MeasuredQubit == 2

----------------------------------------------------------------------------
(* Exact arithmetic *)

RECURSIVE Gcd(_, _)
Gcd(a, b) == IF b = 0 THEN a ELSE Gcd(b, a % b)

Abs(x) == IF x < 0 THEN -x ELSE x

\* The reduced fraction n/d, d > 0.
Frac(n, d) ==
    LET g == Gcd(Abs(n), Abs(d))
        s == IF d < 0 THEN -1 ELSE 1
    IN  [num |-> s * (n \div g), den |-> s * (d \div g)]

Zero == [num |-> 0, den |-> 1]

RAdd(x, y) ==
    LET g == Gcd(x.den, y.den)
    IN  Frac(x.num * (y.den \div g) + y.num * (x.den \div g), (x.den \div g) * y.den)

\* numpy's float division: x / 0 is nan for x = 0 and +-inf otherwise, written here
\* as a fraction of denominator 0; no exception is raised.
RDiv(x, m) ==
    IF m = 0
    THEN [num |-> IF x.num > 0 THEN 1 ELSE IF x.num < 0 THEN -1 ELSE 0, den |-> 0]
    ELSE Frac(x.num, x.den * m)

IsNumber(x) == x.den # 0

CAdd(x, y) == <<x[1] + y[1], x[2] + y[2]>>

CMul(x, y) == <<x[1] * y[1] - x[2] * y[2], x[1] * y[2] + x[2] * y[1]>>

CConj(x) == <<x[1], -x[2]>>

CNormSq(x) == x[1] * x[1] + x[2] * x[2]

RECURSIVE Pow(_, _)
Pow(b, e) == IF e = 0 THEN 1 ELSE b * Pow(b, e - 1)

Idx == 0 .. (Pow(2, NumQubits) - 1)

\* Bit k of basis index i: the value qubit k reads in basis state |i>.
Bit(i, k) == (i \div Pow(2, k)) % 2

RECURSIVE CSum(_, _)
\* f[0] + ... + f[k] for complex f
CSum(f, k) == IF k < 0 THEN <<0, 0>> ELSE CAdd(f[k], CSum(f, k - 1))

RECURSIVE ISum(_, _)
\* f[0] + ... + f[k] for integer f
ISum(f, k) == IF k < 0 THEN 0 ELSE f[k] + ISum(f, k - 1)

MatVec(m, v) ==
    [i \in Idx |-> CSum([j \in Idx |-> CMul(m[i][j], v[j])], Pow(2, NumQubits) - 1)]

NormSq(v) == ISum([i \in Idx |-> CNormSq(v[i])], Pow(2, NumQubits) - 1)

----------------------------------------------------------------------------
(* Operators of cell 47facf3e *)

\* Mutant of Pauli: Y written with the same sign in both entries
PauliBadY(l) ==
    CASE l = "I" -> <<<< <<1, 0>>, <<0, 0>> >>, << <<0, 0>>, <<1, 0>> >>>>
      [] l = "X" -> <<<< <<0, 0>>, <<1, 0>> >>, << <<1, 0>>, <<0, 0>> >>>>
      [] l = "Y" -> <<<< <<0, 0>>, <<0, -1>> >>, << <<0, -1>>, <<0, 0>> >>>>
      [] l = "Z" -> <<<< <<1, 0>>, <<0, 0>> >>, << <<0, 0>>, <<-1, 0>> >>>>

Pauli(l) ==
    CASE l = "I" -> <<<< <<1, 0>>, <<0, 0>> >>, << <<0, 0>>, <<1, 0>> >>>>
      [] l = "X" -> <<<< <<0, 0>>, <<1, 0>> >>, << <<1, 0>>, <<0, 0>> >>>>
      [] l = "Y" -> <<<< <<0, 0>>, <<0, -1>> >>, << <<0, 1>>, <<0, 0>> >>>>
      [] l = "Z" -> <<<< <<1, 0>>, <<0, 0>> >>, << <<0, 0>>, <<-1, 0>> >>>>

\* SparsePauliOp: the leftmost label acts on the highest qubit, and to_matrix() is
\* the Kronecker product of the labels in the order written.
RECURSIVE TermEntry(_, _, _, _)
TermEntry(label, i, j, p) ==
    IF p > NumQubits THEN <<1, 0>>
    ELSE CMul(Pauli(label[p])[Bit(i, NumQubits - p) + 1][Bit(j, NumQubits - p) + 1],
              TermEntry(label, i, j, p + 1))

\* Mutant of HTerms: the coefficients written -J instead of -J/2
HTermsNoHalf ==
    << [label |-> <<"X", "X", "I">>, coeff |-> -J_1],
       [label |-> <<"I", "Z", "Z">>, coeff |-> -J_2] >>

HTerms ==
    << [label |-> <<"X", "X", "I">>, coeff |-> -(J_1 \div 2)],
       [label |-> <<"I", "Z", "Z">>, coeff |-> -(J_2 \div 2)] >>

\* The labels a SparsePauliOp of the register accepts
Labels == [1 .. NumQubits -> {"I", "X", "Y", "Z"}]

\* The matrix of each label
LabelMatrix == [l \in Labels |-> [i \in Idx |-> [j \in Idx |-> TermEntry(l, i, j, 1)]]]

\* SparsePauliOp(data, coeffs).to_matrix(): the sum of the terms' matrices
ToMatrix(ts) ==
    [i \in Idx |-> [j \in Idx |->
        CSum([t \in 0 .. (Len(ts) - 1) |->
                CMul(<<ts[t + 1].coeff, 0>>, LabelMatrix[ts[t + 1].label][i][j])],
             Len(ts) - 1)]]

\* H.to_matrix()
H == ToMatrix(HTerms)

\* The single-trajectory notebook: J_1 = J_2 = -2.0
J_1_single == -2

J_2_single == -2

\* The single-trajectory notebook:
\* H = SparsePauliOp(data = ["XXI", "IZZ"], coeffs = [J_1/2, J_2/2])
HTermsSingle ==
    << [label |-> <<"X", "X", "I">>, coeff |-> J_1_single \div 2],
       [label |-> <<"I", "Z", "Z">>, coeff |-> J_2_single \div 2] >>

\* The real coefficients tried
Coeffs == ((-MaxCoeff) .. MaxCoeff) \ {0}

DtPoints == { [ca |-> 7, cb |-> 4, d |-> 9], [ca |-> 1, cb |-> 2, d |-> 3] }

\* Mutant of Expm: the exponential cut after its first-order term, I - i H dt
ExpmFirstOrder(p) ==
    [i \in Idx |-> [j \in Idx |->
        CAdd(<<IF i = j THEN p.d ELSE 0, 0>>, CMul(<<0, -p.cb>>, H[i][j]))]]

\* d * expm(-i h dt) = ca I - i cb h, for a matrix h of square 2 I
ExpmOf(h, p) ==
    [i \in Idx |-> [j \in Idx |->
        CAdd(<<IF i = j THEN p.ca ELSE 0, 0>>, CMul(<<0, -p.cb>>, h[i][j]))]]

\* Mutant of Expm: the exponent written without its i, expm(-H dt) at first sight
ExpmRealStep(p) ==
    [i \in Idx |-> [j \in Idx |->
        CAdd(<<IF i = j THEN p.ca ELSE 0, 0>>, CMul(<<-p.cb, 0>>, H[i][j]))]]

\* d * expm(-1.0j*H.to_matrix()*dt)
Expm(p) == ExpmOf(H, p)

UTable == [p \in DtPoints |-> Expm(p)]

\* The propagator in use, as d * U_dt
U_dt == UTable[dt]

----------------------------------------------------------------------------
(* Execution of a circuit by the backend *)

\* QuantumCircuit(3, 1): all qubits start in |0>
Ket000 == [i \in Idx |-> IF i = 0 THEN <<1, 0>> ELSE <<0, 0>>]

\* Mutant of Project: the qubits counted from the other end of the register
ProjectBigEndian(v, k, b) ==
    [i \in Idx |-> IF Bit(i, NumQubits - 1 - k) = b THEN v[i] ELSE <<0, 0>>]

\* P_b v for the projector of qubit k on outcome b
Project(v, k, b) == [i \in Idx |-> IF Bit(i, k) = b THEN v[i] ELSE <<0, 0>>]

\* The unnormalised branches of a circuit, one per sequence of outcomes of its
\* measurements, each over the denominator d^(number of U).
RECURSIVE Branches(_, _)
Branches(circ, n) ==
    IF n = 0 THEN <<Ket000>>
    ELSE LET prev == Branches(circ, n - 1)
         IN  IF circ[n] = "U"
             THEN [b \in 1 .. Len(prev) |-> MatVec(propagator, prev[b])]
             ELSE [b \in 1 .. (2 * Len(prev)) |->
                      Project(prev[(b + 1) \div 2], MeasuredQubit, b % 2)]

NumU(circ) == Cardinality({n \in 1 .. Len(circ) : circ[n] = "U"})

NumM(circ) == Cardinality({n \in 1 .. Len(circ) : circ[n] = "M"})

\* <v|h|v>, real for Hermitian h
ExpectOf(h, v) ==
    LET hv == MatVec(h, v)
    IN  CSum([i \in Idx |-> CMul(CConj(v[i]), hv[i])], Pow(2, NumQubits) - 1)[1]

\* <v|H|v>
ExpectH(v) == ExpectOf(hamiltonian, v)

\* estimator.run([(chain, H)]).result()[0].data.evs
EstimatorRun(circ) ==
    LET br == Branches(circ, Len(circ))
    IN  Frac(ISum([b \in 0 .. (Len(br) - 1) |-> ExpectH(br[b + 1])], Len(br) - 1),
             Pow(dt.d, 2 * NumU(circ)))

----------------------------------------------------------------------------
(* The trajectory loop of cell b1d49df6 *)

\* Mutant of LoopBody: the order of the notebooks' "Measurement protocol"
LoopBodyEvolveFirst == <<"evolve", "measure", "record">>

\* The statements of the body of the inner loop, in the order written
LoopBody == <<"record", "evolve", "measure">>

\* Mutant of NewChain: the circuit created once, before the loop over the
\* trajectories, and carried from one trajectory to the next
NewChainCarried == chain

\* chain = QuantumCircuit(3, 1)
NewChain == << >>

\* np.zeros(num_steps)
NpZeros(n) == [s \in 0 .. (n - 1) |-> Zero]

PsiInit == [v |-> Ket000, n |-> 1]

\* No parameters: the ansatz is not being evaluated
NoTheta == << >>

\* No optimal parameters: minimize has not returned
NoParams == << >>

\* No random number drawn yet
NoDraw == [u |-> -1, pre |-> PsiInit, b |-> -1]

\* measure_all not executed
NoMeas == -1

Configs ==
    { c \in [M : 0 .. MaxTrajectories, N : 0 .. MaxSteps, p : DtPoints] : TRUE }

Init ==
    /\ \E c \in Configs :
          /\ num_trajectories = c.M
          /\ num_steps = c.N
          /\ dt = c.p
    /\ pc = "for_trajectory"
    /\ trajectory = 0
    /\ step = 0
    /\ pos = 1
    /\ chain = << >>
    /\ expvals = NpZeros(num_steps)
    /\ record = << >>
    /\ records = << >>
    /\ log = << >>
    /\ adds = [s \in 0 .. (num_steps - 1) |-> 0]
    /\ divisions = 0
    /\ ip = 1
    /\ psi = PsiInit
    /\ outcomes = << >>
    /\ draw = NoDraw
    /\ meas = NoMeas
    /\ terms = HTerms
    /\ variant = "open_chain"
    /\ hamiltonian = H
    /\ propagator = U_dt
    /\ theta = NoTheta
    /\ opt_params = NoParams

\* for trajectory in range(num_trajectories): chain = QuantumCircuit(3, 1)
ForTrajectory ==
    /\ pc = "for_trajectory"
    /\ trajectory < num_trajectories
    /\ chain' = NewChain
    /\ step' = 0
    /\ record' = << >>
    /\ log' = << >>
    /\ pc' = "for_step"
    /\ UNCHANGED <<trajectory, pos, expvals, records, adds, divisions>>
    /\ UNCHANGED <<configVars, shotVars, vqeVars, opVars>>

ForTrajectoryExit ==
    /\ pc = "for_trajectory"
    /\ trajectory >= num_trajectories
    /\ pc' = "divide"
    /\ UNCHANGED <<trajectory, step, pos, chain, expvals, record, records, log, adds,
                   divisions>>
    /\ UNCHANGED <<configVars, shotVars, vqeVars, opVars>>

\* Mutant of StepsLeft: range(num_steps - 1)
StepsLeftOneShort == step < num_steps - 1

\* for step in range(num_steps):
StepsLeft == step < num_steps

ForStep ==
    /\ pc = "for_step"
    /\ StepsLeft
    /\ pc' = "body"
    /\ pos' = 1
    /\ UNCHANGED <<trajectory, step, chain, expvals, record, records, log, adds,
                   divisions>>
    /\ UNCHANGED <<configVars, shotVars, vqeVars, opVars>>

ForStepExit ==
    /\ pc = "for_step"
    /\ ~StepsLeft
    /\ trajectory' = trajectory + 1
    /\ records' = Append(records, record)
    /\ pc' = "for_trajectory"
    /\ UNCHANGED <<step, pos, chain, expvals, record, log, adds, divisions>>
    /\ UNCHANGED <<configVars, shotVars, vqeVars, opVars>>

\* Control after a statement of the body
Advance ==
    IF pos = Len(LoopBody)
    THEN /\ step' = step + 1
         /\ pc' = "for_step"
         /\ pos' = 1
    ELSE /\ pos' = pos + 1
         /\ UNCHANGED <<step, pc>>

\* Mutant of Accumulate: expvals += value, the value added to every slot
AccumulateBroadcast(arr, s, value) == [k \in DOMAIN arr |-> RAdd(arr[k], value)]

\* Mutant of Accumulate: expvals[step] = value
AccumulateOverwrite(arr, s, value) == [arr EXCEPT ![s] = value]

\* expvals[step] += value
Accumulate(arr, s, value) == [arr EXCEPT ![s] = RAdd(@, value)]

\* pubs = (chain, H); job = estimator.run([pubs]); expvals[step] += job.result()[0].data.evs
RecordExpectation ==
    /\ pc = "body"
    /\ LoopBody[pos] = "record"
    /\ step \in DOMAIN expvals
    /\ LET evs == EstimatorRun(chain)
       IN  /\ expvals' = Accumulate(expvals, step, evs)
           /\ record' = Append(record, [step |-> step, evs |-> evs,
                                        nU |-> NumU(chain), nM |-> NumM(chain)])
    /\ adds' = [adds EXCEPT ![step] = @ + 1]
    /\ log' = Append(log, <<"record", step>>)
    /\ Advance
    /\ UNCHANGED <<trajectory, chain, records, divisions>>
    /\ UNCHANGED <<configVars, shotVars, vqeVars, opVars>>

MatMul(a, b) ==
    [i \in Idx |-> [j \in Idx |->
        CSum([k \in Idx |-> CMul(a[i][k], b[k][j])], Pow(2, NumQubits) - 1)]]

\* Mutant of GateAfterAppend: the gate rebuilt in the loop for the time elapsed,
\* U_dt = U_dt @ U_dt
GateAfterAppendRebuilt == MatMul(propagator, propagator)

\* chain.append(U_dt, ...) puts the gate in the circuit and leaves U_dt as it is
GateAfterAppend == propagator

\* chain.append(U_dt, [0, 1, 2])
ApplyPropagator ==
    /\ pc = "body"
    /\ LoopBody[pos] = "evolve"
    /\ chain' = Append(chain, "U")
    /\ propagator' = GateAfterAppend
    /\ log' = Append(log, <<"evolve", step>>)
    /\ Advance
    /\ UNCHANGED <<trajectory, expvals, record, records, adds, divisions>>
    /\ UNCHANGED <<configVars, shotVars, vqeVars, terms, variant, hamiltonian>>

\* chain.measure(2, 0)
MeasureQubit ==
    /\ pc = "body"
    /\ LoopBody[pos] = "measure"
    /\ chain' = Append(chain, "M")
    /\ log' = Append(log, <<"measure", step>>)
    /\ Advance
    /\ UNCHANGED <<trajectory, expvals, record, records, adds, divisions>>
    /\ UNCHANGED <<configVars, shotVars, vqeVars, opVars>>

\* expvals /= num_trajectories
Finalize(arr) == [s \in DOMAIN arr |-> RDiv(arr[s], num_trajectories)]

Divide ==
    /\ pc = "divide"
    /\ expvals' = Finalize(expvals)
    /\ divisions' = divisions + 1
    /\ pc' = "done"
    /\ UNCHANGED <<trajectory, step, pos, chain, record, records, log, adds>>
    /\ UNCHANGED <<configVars, shotVars, vqeVars, opVars>>

Next ==
    \/ ForTrajectory
    \/ ForTrajectoryExit
    \/ ForStep
    \/ ForStepExit
    \/ RecordExpectation
    \/ ApplyPropagator
    \/ MeasureQubit
    \/ Divide

Spec == Init /\ [][Next]_vars

----------------------------------------------------------------------------
(* One shot of the backend on a circuit the notebook submits: the instructions
   of chain executed in order on the state vector psi = v / sqrt(n). *)

\* (U_dt ; measure qubit 2) repeated s times, as the two loops of the notebooks
\* build it (cell 1fd67dba, cell b1d49df6)
RECURSIVE Circuit(_)
Circuit(s) == IF s = 0 THEN NewChain ELSE Append(Append(Circuit(s - 1), "U"), "M")

\* The unitary gate applied to the state
ApplyUnitary(s) == [v |-> MatVec(propagator, s.v), n |-> s.n * dt.d * dt.d]

\* n * <psi|P_b|psi> for qubit k
ProbNum(s, k, b) == NormSq(Project(s.v, k, b))

\* The probability that qubit k reads b
Probability(s, k, b) == Frac(ProbNum(s, k, b), s.n)

\* Mutant of Collapse: the projection without the division by sqrt(p_b)
CollapseNoRenorm(s, k, b) == [v |-> Project(s.v, k, b), n |-> s.n]

\* psi' = P_b psi / sqrt(p_b): with psi = v / sqrt(n) and p_b = q / n this is
\* (P_b v) / sqrt(q)
Collapse(s, k, b) == [v |-> Project(s.v, k, b), n |-> ProbNum(s, k, b)]

\* The circuit of the sampler cell: num_steps of U_dt and measure(2, 0), then
\* measure_all()
SamplerCircuit(s) == Append(Circuit(s), "MA")

ShotInit ==
    /\ \E c \in [N : 0 .. MaxShotSteps, p : DtPoints] :
          /\ num_trajectories = 1
          /\ num_steps = c.N
          /\ dt = c.p
    /\ pc = "shot"
    /\ trajectory = 0
    /\ step = 0
    /\ pos = 1
    /\ chain \in {Circuit(num_steps), SamplerCircuit(num_steps)}
    /\ expvals = NpZeros(num_steps)
    /\ record = << >>
    /\ records = << >>
    /\ log = << >>
    /\ adds = [s \in 0 .. (num_steps - 1) |-> 0]
    /\ divisions = 0
    /\ ip = 1
    /\ psi = PsiInit
    /\ outcomes = << >>
    /\ draw = NoDraw
    /\ meas = NoMeas
    /\ terms = HTerms
    /\ variant = "open_chain"
    /\ hamiltonian = H
    /\ propagator = U_dt
    /\ theta = NoTheta
    /\ opt_params = NoParams

ExecUnitary ==
    /\ pc = "shot"
    /\ ip <= Len(chain)
    /\ chain[ip] = "U"
    /\ psi' = ApplyUnitary(psi)
    /\ ip' = ip + 1
    /\ UNCHANGED <<outcomes, draw, meas, chain, loopVars, configVars, opVars, vqeVars>>

\* The uniform random numbers of the backend: u / DrawGrid for u in Draws
Draws == 0 .. (DrawGrid - 1)

\* u / DrawGrid < p
Below(u, p) == u * p.den < DrawGrid * p.num

\* Mutant of SelectOutcome: 0 when u <= p0
SelectOutcomeInclusive(u, p0) == IF u * p0.den <= DrawGrid * p0.num THEN 0 ELSE 1

\* The outcome a draw selects: 0 when u < p0, else 1
SelectOutcome(u, p0) == IF Below(u, p0) THEN 0 ELSE 1

\* chain.measure(2, 0) executed: the outcome is drawn with the Born weights and
\* the state collapses on it
ExecMeasure ==
    /\ pc = "shot"
    /\ ip <= Len(chain)
    /\ chain[ip] = "M"
    /\ \E u \in Draws :
          LET b == SelectOutcome(u, Probability(psi, MeasuredQubit, 0))
          IN  /\ psi' = Collapse(psi, MeasuredQubit, b)
              /\ outcomes' = Append(outcomes, b)
              /\ draw' = [u |-> u, pre |-> psi, b |-> b]
    /\ ip' = ip + 1
    /\ UNCHANGED <<meas, chain, loopVars, configVars, opVars, vqeVars>>

\* The probability that measure_all reads a basis index <= i
Cumulative(s, i) == Frac(ISum([j \in Idx |-> CNormSq(s.v[j])], i), s.n)

\* The basis index a draw selects: the first whose cumulative weight exceeds u
SelectIndex(u, s) ==
    CHOOSE i \in Idx :
        /\ Below(u, Cumulative(s, i))
        /\ \A j \in Idx : j < i => ~Below(u, Cumulative(s, j))

\* The state after all the qubits have been read as the bits of i
CollapseAll(s, i) ==
    Collapse(Collapse(Collapse(s, 0, Bit(i, 0)), 1, Bit(i, 1)), 2, Bit(i, 2))

\* chain.measure_all() executed
ExecMeasureAll ==
    /\ pc = "shot"
    /\ ip <= Len(chain)
    /\ chain[ip] = "MA"
    /\ \E u \in Draws :
          LET i == SelectIndex(u, psi)
          IN  /\ psi' = CollapseAll(psi, i)
              /\ meas' = i
              /\ draw' = [u |-> u, pre |-> psi, b |-> i]
    /\ ip' = ip + 1
    /\ UNCHANGED <<outcomes, chain, loopVars, configVars, opVars, vqeVars>>

ShotNext ==
    \/ ExecUnitary
    \/ ExecMeasure
    \/ ExecMeasureAll

ShotSpec == ShotInit /\ [][ShotNext]_vars

----------------------------------------------------------------------------
(* Construction of the Hamiltonian: SparsePauliOp(data, coeffs) and expm *)

\* No step duration assigned yet: cos = 1, sin = 0
NoStep == [ca |-> 1, cb |-> 0, d |-> 1]

BuildInit ==
    /\ num_trajectories = 1
    /\ num_steps = 0
    /\ dt = NoStep
    /\ pc = "build"
    /\ trajectory = 0
    /\ step = 0
    /\ pos = 1
    /\ chain = NewChain
    /\ expvals = NpZeros(num_steps)
    /\ record = << >>
    /\ records = << >>
    /\ log = << >>
    /\ adds = [s \in 0 .. (num_steps - 1) |-> 0]
    /\ divisions = 0
    /\ ip = 1
    /\ psi = PsiInit
    /\ outcomes = << >>
    /\ draw = NoDraw
    /\ meas = NoMeas
    /\ terms = << >>
    /\ variant = "none"
    /\ hamiltonian = ToMatrix(terms)
    /\ propagator = ExpmOf(hamiltonian, dt)
    /\ theta = NoTheta
    /\ opt_params = NoParams

\* The rank of a label in the alphabetical order of the labels
LabelRank(l) ==
    LET r(x) == CASE x = "I" -> 0 [] x = "X" -> 1 [] x = "Y" -> 2 [] x = "Z" -> 3
    IN  ISum([n \in 0 .. (NumQubits - 1) |-> r(l[n + 1]) * Pow(4, NumQubits - 1 - n)],
             NumQubits - 1)

\* SparsePauliOp(data, coeffs) given one more label and coefficient. A set of
\* terms is entered in the alphabetical order of its labels.
AddTerm ==
    /\ pc = "build"
    /\ variant = "none"
    /\ Len(terms) < Len(HTerms)
    /\ \E l \in Labels, c \in Coeffs :
          /\ terms # << >> => LabelRank(terms[Len(terms)].label) <= LabelRank(l)
          /\ terms' = Append(terms, [label |-> l, coeff |-> c])
          /\ hamiltonian' = ToMatrix(terms')
    /\ UNCHANGED <<variant, propagator, chain, loopVars, configVars, shotVars, vqeVars>>

\* Cell 47facf3e of the open-chain notebook
BuildOpenChain ==
    /\ pc = "build"
    /\ variant = "none"
    /\ terms = << >>
    /\ terms' = HTerms
    /\ variant' = "open_chain"
    /\ hamiltonian' = ToMatrix(terms')
    /\ dt' \in DtPoints
    /\ propagator' = ExpmOf(hamiltonian', dt')
    /\ UNCHANGED <<chain, loopVars, num_trajectories, num_steps, shotVars, vqeVars>>

\* The same cell of the single-trajectory notebook
BuildSingle ==
    /\ pc = "build"
    /\ variant = "none"
    /\ terms = << >>
    /\ terms' = HTermsSingle
    /\ variant' = "single"
    /\ hamiltonian' = ToMatrix(terms')
    /\ dt' \in DtPoints
    /\ propagator' = ExpmOf(hamiltonian', dt')
    /\ UNCHANGED <<chain, loopVars, num_trajectories, num_steps, shotVars, vqeVars>>

BuildNext ==
    \/ AddTerm
    \/ BuildOpenChain
    \/ BuildSingle

BuildSpec == BuildInit /\ [][BuildNext]_vars

----------------------------------------------------------------------------
(* One site measured under a Hamiltonian c P on that site *)

\* The amplitudes tried
Amps == {<<x, y>> : x \in (-MaxAmp) .. MaxAmp, y \in (-MaxAmp) .. MaxAmp}

\* The state a |0> + b |1> of the measured qubit, the other qubits in |0>
SiteState(a, b) ==
    [v |-> [i \in Idx |-> IF i = 0 THEN a
                          ELSE IF i = Pow(2, MeasuredQubit) THEN b
                          ELSE <<0, 0>>],
     n |-> CNormSq(a) + CNormSq(b)]

\* The term c P on the measured qubit: the leftmost letter of a label is the
\* highest qubit
SiteTerm(P, c) ==
    [label |-> [n \in 1 .. NumQubits |-> IF n = NumQubits - MeasuredQubit THEN P ELSE "I"],
     coeff |-> c]

SiteInit ==
    /\ num_trajectories = 1
    /\ num_steps = 1
    /\ dt = NoStep
    /\ pc = "shot"
    /\ trajectory = 0
    /\ step = 0
    /\ pos = 1
    /\ chain = <<"M">>
    /\ expvals = NpZeros(num_steps)
    /\ record = << >>
    /\ records = << >>
    /\ log = << >>
    /\ adds = [s \in 0 .. (num_steps - 1) |-> 0]
    /\ divisions = 0
    /\ ip = 1
    /\ \E a \in Amps, b \in Amps :
          /\ CNormSq(a) + CNormSq(b) > 0
          /\ psi = SiteState(a, b)
    /\ outcomes = << >>
    /\ draw = NoDraw
    /\ meas = NoMeas
    /\ \E P \in {"X", "Y", "Z"}, c \in Coeffs : terms = <<SiteTerm(P, c)>>
    /\ variant = "site"
    /\ hamiltonian = ToMatrix(terms)
    /\ propagator = ExpmOf(hamiltonian, dt)
    /\ theta = NoTheta
    /\ opt_params = NoParams

SiteNext == ExecMeasure

SiteSpec == SiteInit /\ [][SiteNext]_vars

----------------------------------------------------------------------------
(* The VQE notebook: ansatz, vqe_energy, minimize *)

\* The angles tried, each given by the cosine c/h and the sine s/h of its half:
\* 0, pi, 2 atan(3/4) = 1.287.. and 2 atan(4/3) = 1.854..
AnglePoints ==
    { [c |-> 1, s |-> 0, h |-> 1], [c |-> 0, s |-> 1, h |-> 1],
      [c |-> 4, s |-> 3, h |-> 5], [c |-> 3, s |-> 4, h |-> 5] }

\* h * Rz(a) = h * diag(exp(-i a/2), exp(i a/2))
Rz(a) == <<<< <<a.c, -a.s>>, <<0, 0>> >>, << <<0, 0>>, <<a.c, a.s>> >>>>

\* h * Rx(a) = h * [[cos(a/2), -i sin(a/2)], [-i sin(a/2), cos(a/2)]]
Rx(a) == <<<< <<a.c, 0>>, <<0, -a.s>> >>, << <<0, -a.s>>, <<a.c, 0>> >>>>

\* A one-qubit gate g applied to the one-qubit vector w
Gate(g, w) ==
    <<CAdd(CMul(g[1][1], w[1]), CMul(g[1][2], w[2])),
      CAdd(CMul(g[2][1], w[1]), CMul(g[2][2], w[2]))>>

\* Qubit q after its two gates, ansatz.rz(theta[2q], q) and
\* ansatz.rx(theta[2q + 1], q), from |0>
QubitState(t, q) == Gate(Rx(t[2 * q + 2]), Gate(Rz(t[2 * q + 1]), <<<<1, 0>>, <<0, 0>>>>))

\* The product of the amplitudes of the bits of i, qubits 0 .. q
RECURSIVE ProductAmp(_, _, _)
ProductAmp(ws, i, q) ==
    IF q < 0 THEN <<1, 0>> ELSE CMul(ws[q][Bit(i, q) + 1], ProductAmp(ws, i, q - 1))

\* The product of the squares of the h of the first g parameters
RECURSIVE Scale(_, _)
Scale(t, g) == IF g = 0 THEN 1 ELSE t[g].h * t[g].h * Scale(t, g - 1)

\* The state the ansatz prepares from |000>: its gates act on one qubit each,
\* so it is the product of the states of the qubits
Ansatz(t) ==
    LET ws == [q \in 0 .. (NumQubits - 1) |-> QubitState(t, q)]
    IN  [v |-> [i \in Idx |-> ProductAmp(ws, i, NumQubits - 1)],
         n |-> Scale(t, NumParams)]

\* vqe_energy(params, ansatz, hamiltonian, estimator)
VqeEnergy(t) ==
    LET a == Ansatz(t)
    IN  Frac(ExpectOf(hamiltonian, a.v), a.n)

\* p < q for fractions of positive denominators
RLess(p, q) == p.num * q.den < q.num * p.den

\* x0 = np.ones(6) is not one of the angles tried: the search is started from
\* every point
VqeInit ==
    /\ num_trajectories = 1
    /\ num_steps = 0
    /\ dt = NoStep
    /\ pc = "minimize"
    /\ trajectory = 0
    /\ step = 0
    /\ pos = 1
    /\ chain = NewChain
    /\ expvals = NpZeros(num_steps)
    /\ record = << >>
    /\ records = << >>
    /\ log = << >>
    /\ adds = [s \in 0 .. (num_steps - 1) |-> 0]
    /\ divisions = 0
    /\ ip = 1
    /\ psi = PsiInit
    /\ outcomes = << >>
    /\ draw = NoDraw
    /\ meas = NoMeas
    /\ terms = HTerms
    /\ variant = "vqe"
    /\ hamiltonian = ToMatrix(terms)
    /\ propagator = ExpmOf(hamiltonian, dt)
    /\ theta \in [1 .. NumParams -> AnglePoints]
    /\ opt_params = NoParams

\* The parameters one step of the minimizer can move to: one angle changed, the
\* energy lower
Descents(t) ==
    LET e == VqeEnergy(t)
    IN  {t2 \in {[t EXCEPT ![k] = a] : k \in 1 .. NumParams, a \in AnglePoints} :
            RLess(VqeEnergy(t2), e)}

\* An iteration of minimize(vqe_energy, x0, ...)
MinimizeStep ==
    /\ pc = "minimize"
    /\ \E t2 \in Descents(theta) : theta' = t2
    /\ UNCHANGED <<opt_params, chain, loopVars, configVars, shotVars, opVars>>

\* minimize returns where no step lowers the energy; the ansatz is assigned the
\* parameters found
MinimizeReturn ==
    /\ pc = "minimize"
    /\ Descents(theta) = {}
    /\ pc' = "returned"
    /\ psi' = Ansatz(theta)
    /\ UNCHANGED <<theta, opt_params, chain, trajectory, step, pos, expvals, record,
                   records, log, adds, divisions, ip, outcomes, draw, meas>>
    /\ UNCHANGED <<configVars, opVars>>

VqeNext ==
    \/ MinimizeStep
    \/ MinimizeReturn

VqeSpec == VqeInit /\ [][VqeNext]_vars

----------------------------------------------------------------------------
(* The VQE notebook: the optimal parameters after minimize *)

\* The values of result.x tried: -1, -1/20, 1/20, 1/10 and 1
ParamValues ==
    { Frac(-1, 1), Frac(-1, 20), Frac(1, 20), Frac(1, 10), Frac(1, 1) }

\* 1e-1
Threshold == Frac(1, 10)

\* opt_params[opt_params < 1e-1] = 0
ZeroBelow(x) == [k \in DOMAIN x |-> IF RLess(x[k], Threshold) THEN Zero ELSE x[k]]

\* minimize has returned: opt_params = result.x
PostInit ==
    /\ num_trajectories = 1
    /\ num_steps = 0
    /\ dt = NoStep
    /\ pc = "returned"
    /\ trajectory = 0
    /\ step = 0
    /\ pos = 1
    /\ chain = NewChain
    /\ expvals = NpZeros(num_steps)
    /\ record = << >>
    /\ records = << >>
    /\ log = << >>
    /\ adds = [s \in 0 .. (num_steps - 1) |-> 0]
    /\ divisions = 0
    /\ ip = 1
    /\ psi = PsiInit
    /\ outcomes = << >>
    /\ draw = NoDraw
    /\ meas = NoMeas
    /\ terms = HTerms
    /\ variant = "vqe"
    /\ hamiltonian = ToMatrix(terms)
    /\ propagator = ExpmOf(hamiltonian, dt)
    /\ theta = NoTheta
    /\ opt_params \in [1 .. NumParams -> ParamValues]

\* opt_params[opt_params < 1e-1] = 0 # Setting very small parameters to zero
ZeroSmall ==
    /\ pc = "returned"
    /\ opt_params # NoParams
    /\ opt_params' = ZeroBelow(opt_params)
    /\ pc' = "post"
    /\ UNCHANGED <<theta, chain, trajectory, step, pos, expvals, record, records, log,
                   adds, divisions>>
    /\ UNCHANGED <<configVars, shotVars, opVars>>

PostNext == ZeroSmall

PostSpec == PostInit /\ [][PostNext]_vars

----------------------------------------------------------------------------
(* Properties *)

MinusOne == [num |-> -1, den |-> 1]

One == [num |-> 1, den |-> 1]

StatementAt(i) ==
    CASE (i - 1) % 3 = 0 -> "record"
      [] (i - 1) % 3 = 1 -> "evolve"
      [] (i - 1) % 3 = 2 -> "measure"

C2_RecordedAfterKSteps ==
    \A k \in 1 .. Len(record) : record[k].nU = k /\ record[k].nM = k

RECURSIVE SumOfRecords(_, _, _)
\* The sum over the first t trajectories of the value recorded at step s
SumOfRecords(rs, t, s) ==
    IF t = 0 THEN Zero ELSE RAdd(SumOfRecords(rs, t - 1, s), rs[t][s + 1].evs)

\* C4: the output at every step index is the arithmetic mean over the M
\* trajectories of the values recorded at that step: every slot starts at zero,
\* receives one addition from each trajectory, and is divided by M once, after the
\* last trajectory.
C4_EnsembleMean ==
    /\ (pc = "for_trajectory" /\ trajectory = 0) => \A s \in DOMAIN expvals : expvals[s] = Zero
    /\ pc # "done" => divisions = 0
    /\ \A s \in DOMAIN adds : adds[s] <= num_trajectories
    /\ pc \in {"divide", "done"} =>
          /\ Len(records) = num_trajectories
          /\ \A s \in 0 .. (num_steps - 1) : adds[s] = num_trajectories
    /\ (pc = "done" /\ num_trajectories >= 1) =>
          /\ divisions = 1
          /\ \A s \in 0 .. (num_steps - 1) :
                /\ IsNumber(expvals[s])
                /\ Frac(expvals[s].num * num_trajectories, expvals[s].den)
                   = SumOfRecords(records, num_trajectories, s)

\* Witness of C4: a finished run of at least two trajectories of at least two steps.
C4_Witness ==
    /\ pc = "done"
    /\ num_trajectories >= 2
    /\ num_steps >= 2
    /\ divisions = 1

\* The state of the running trajectory
TrajPhase ==
    CASE pc = "for_step" /\ log = << >> /\ step = 0 -> "Initial"
      [] pc \in {"for_step", "body"} -> "Stepping"
      [] pc = "for_trajectory" /\ trajectory >= 1 -> "Complete"
      [] OTHER -> "None"

PhaseOrder ==
    { <<"None", "Initial">>, <<"Initial", "Stepping">>, <<"Stepping", "Complete">>,
      <<"Complete", "Initial">>, <<"Complete", "None">> }

\* C5: a trajectory moves Initial -> Stepping -> Complete only (for N >= 1); it
\* is Complete after exactly N steps, its record then holds exactly N values in
\* step order, and the output has exactly N entries.
C5_Lifecycle ==
    /\ [](/\ TrajPhase = "Complete" =>
               /\ step = num_steps
               /\ Len(record) = num_steps
               /\ NumU(chain) = num_steps
               /\ NumM(chain) = num_steps
          /\ Len(record) <= num_steps
          /\ \A k \in 1 .. Len(record) : record[k].step = k - 1
          /\ \A t \in 1 .. Len(records) : Len(records[t]) = num_steps
          /\ DOMAIN expvals = 0 .. (num_steps - 1))
    /\ [][(num_steps >= 1 /\ TrajPhase' # TrajPhase)
             => <<TrajPhase, TrajPhase'>> \in PhaseOrder]_vars

\* Witness of C5: a trajectory of three steps is Complete.
C5_Witness ==
    /\ TrajPhase = "Complete"
    /\ num_steps >= 3
    /\ Len(record) = num_steps
    /\ trajectory >= 2

\* C6: every trajectory starts from |000>: at its start the circuit prepares
\* the basis state, and during it the circuit holds only the evolutions and
\* measurements of this trajectory's own steps.
C6_FreshStart ==
    /\ (pc = "for_step" /\ step = 0) => Branches(chain, Len(chain)) = <<Ket000>>
    /\ pc \in {"for_step", "body"} =>
          /\ NumU(chain) \in {step, step + 1}
          /\ NumM(chain) \in {step, step + 1}
    /\ \A k \in 1 .. Len(record) : record[k].nU = k - 1 /\ record[k].nM = k - 1

\* Witness of C6: the start of a second trajectory, after a first one of at least
\* two steps.
C6_Witness ==
    /\ trajectory >= 1
    /\ pc = "for_step"
    /\ step = 0
    /\ Len(records) >= 1
    /\ Len(records[1]) >= 2

\* C7: when M or N is not positive, the run fails before any step is executed
\* and produces no output: it never divides and never finishes.
C7_InvalidConfigRejected ==
    (num_trajectories < 1 \/ num_steps < 1) =>
        /\ pc # "done"
        /\ divisions = 0
        /\ log = << >>

\* C9: in every state a shot reaches, for every qubit, the two measurement
\* probabilities are each in [0, 1] and sum to 1.
C9_Probabilities ==
    \A k \in 0 .. (NumQubits - 1) :
        LET p0 == Probability(psi, k, 0)
            p1 == Probability(psi, k, 1)
        IN  /\ 0 <= p0.num /\ p0.num <= p0.den
            /\ 0 <= p1.num /\ p1.num <= p1.den
            /\ RAdd(p0, p1) = One

\* Witness of C9: after a measurement and a further evolution both outcomes of the
\* measured qubit have a probability strictly between 0 and 1.
C9_Witness ==
    /\ Len(outcomes) >= 1
    /\ Probability(psi, MeasuredQubit, 0).num > 0
    /\ Probability(psi, MeasuredQubit, 1).num > 0

\* C10: after any sequence of evolutions and collapses from |000> the squared
\* magnitudes of the amplitudes sum to 1.
C10_UnitNorm == NormSq(psi.v) = psi.n

\* Witness of C10: the end of a circuit of two steps in which both outcomes were
\* drawn.
C10_Witness ==
    /\ ip > Len(chain)
    /\ Len(outcomes) >= 2
    /\ outcomes[1] # outcomes[2]

\* The instruction a shot has just executed
Executed == IF ip > 1 THEN chain[ip - 1] ELSE "none"

\* C11: right after measure(2, 0) has read b, the state has no amplitude where
\* qubit 2 reads the other value, every draw of a second measurement of qubit 2
\* selects b again, and that second collapse leaves the state as it is; when
\* measure_all() follows measure(2, 0) directly, it reads the same b for qubit 2
\* and its collapse on qubit 2 changes nothing.
C11_Repeatable ==
    /\ Executed = "M" =>
          /\ \A i \in Idx : Bit(i, MeasuredQubit) # draw.b => psi.v[i] = <<0, 0>>
          /\ \A u \in Draws :
                SelectOutcome(u, Probability(psi, MeasuredQubit, 0)) = draw.b
          /\ Collapse(psi, MeasuredQubit, draw.b) = psi
    /\ (Executed = "MA" /\ ip > 2 /\ chain[ip - 2] = "M") =>
          /\ Bit(meas, MeasuredQubit) = outcomes[Len(outcomes)]
          /\ Collapse(draw.pre, MeasuredQubit, Bit(meas, MeasuredQubit)) = draw.pre

\* Witness of C11: measure_all() has run right after a measure(2, 0) that read 1
\* from a superposition.
C11_Witness ==
    /\ Executed = "MA"
    /\ ip > 2
    /\ chain[ip - 2] = "M"
    /\ outcomes[Len(outcomes)] = 1
    /\ Bit(meas, MeasuredQubit) = 1

\* The floor under which the probability of a selected outcome counts as
\* degenerate. The code has no floor; the 1e-12 of the design cannot be told from
\* 0 in the integers of the model, and 1/4 stands for it.
ProbFloor == [num |-> 1, den |-> 4]

\* C12: when measure(2, 0) has selected an outcome whose probability was below
\* the floor, the measurement has failed: the state is not collapsed and no
\* outcome is recorded.
C12_DegenerateFails ==
    (/\ Executed = "M"
     /\ RLess(Probability(draw.pre, MeasuredQubit, draw.b), ProbFloor))
        => (psi = draw.pre /\ Len(outcomes) < NumM(SubSeq(chain, 1, ip - 1)))

\* C13: the matrix assembled from any Pauli terms with real coefficients, and so
\* the matrix of the terms XXI and IZZ of either notebook, equals its conjugate
\* transpose.
C13_Hermitian ==
    \A i, j \in Idx : hamiltonian[i][j] = CConj(hamiltonian[j][i])

\* Witness of C13: two different terms, one of them with a Y, whose matrix has an
\* entry that is not real.
C13_Witness ==
    /\ pc = "build"
    /\ Len(terms) = 2
    /\ terms[1].label # terms[2].label
    /\ \E n \in 1 .. NumQubits : terms[1].label[n] = "Y"
    /\ \E i, j \in Idx : hamiltonian[i][j][2] # 0

\* The conjugate transpose
Dagger(m) == [i \in Idx |-> [j \in Idx |-> CConj(m[j][i])]]

\* s times the identity
Scalar(s) == [i \in Idx |-> [j \in Idx |-> <<IF i = j THEN s ELSE 0, 0>>]]

\* C14: the propagator built from H is unitary for each step duration, U U^dagger
\* = I (here (dU)(dU)^dagger = d^2 I), and the state it has just been applied to
\* has kept its norm.
C14_Unitary ==
    /\ MatMul(propagator, Dagger(propagator)) = Scalar(dt.d * dt.d)
    /\ Executed = "U" => NormSq(psi.v) = psi.n

\* Witness of C14: the propagator has just been applied to a state collapsed on
\* outcome 1, and has spread it over two basis states.
C14_Witness ==
    /\ Executed = "U"
    /\ Len(outcomes) >= 1
    /\ outcomes[Len(outcomes)] = 1
    /\ Cardinality({i \in Idx : psi.v[i] # <<0, 0>>}) = 2

\* <psi|H|psi> of the state of the shot
Expectation == Frac(ExpectH(psi.v), psi.n)

\* The letter of the one term of a single-site Hamiltonian
SiteLetter == terms[1].label[NumQubits - MeasuredQubit]

\* The statement of C15 for every letter: right after the measurement of the
\* site, the expectation of c P on that site is +c or -c.
C15_AnyPauliEigenvalue ==
    (variant = "site" /\ Executed = "M") =>
        Expectation \in {Frac(terms[1].coeff, 1), Frac(-terms[1].coeff, 1)}

\* C15: for the Hamiltonian c Z on the measured site, right after the
\* measurement the expectation is exactly +c when the outcome is 0 and -c when
\* it is 1, whatever the state before the measurement.
C15_ZEigenvalue ==
    (variant = "site" /\ Executed = "M" /\ SiteLetter = "Z") =>
        Expectation = Frac(IF draw.b = 0 THEN terms[1].coeff ELSE -terms[1].coeff, 1)

\* Witness of C15: outcome 1 read from a superposition under c Z.
C15_Witness ==
    /\ variant = "site"
    /\ Executed = "M"
    /\ SiteLetter = "Z"
    /\ draw.b = 1
    /\ draw.pre.v[0] # <<0, 0>>

\* The entry of a tensor product written site 0 first: the letter at place p of
\* the product acts on qubit p - 1
RECURSIVE TensorEntry(_, _, _, _)
TensorEntry(label, i, j, p) ==
    IF p > NumQubits THEN <<1, 0>>
    ELSE CMul(Pauli(label[p])[Bit(i, p - 1) + 1][Bit(j, p - 1) + 1],
              TensorEntry(label, i, j, p + 1))

\* The Hamiltonian of the notebooks' text,
\* -(J_1/2) I (x) X (x) X - (J_2/2) Z (x) Z (x) I, the rightmost factor being the
\* rightmost qubit of the chain, the measured qubit 2
DocumentedH(j1, j2) ==
    [i \in Idx |-> [j \in Idx |->
        CAdd(CMul(<<-(j1 \div 2), 0>>, TensorEntry(<<"I", "X", "X">>, i, j, 1)),
             CMul(<<-(j2 \div 2), 0>>, TensorEntry(<<"Z", "Z", "I">>, i, j, 1)))]]

\* C16: in each notebook the Hamiltonian built is the documented one for the
\* J_1 and J_2 of that notebook, and the propagator is the exponential of the
\* Hamiltonian built.
C16_DocumentedH ==
    /\ variant = "open_chain" =>
          /\ hamiltonian = DocumentedH(J_1, J_2)
          /\ propagator = ExpmOf(hamiltonian, dt)
    /\ variant = "single" =>
          /\ hamiltonian = DocumentedH(J_1_single, J_2_single)
          /\ propagator = ExpmOf(hamiltonian, dt)

\* The state of one realization after m steps: from |000>, m times the
\* propagator and the collapse of qubit 2 on the outcome os[j] drawn at step j
RECURSIVE StateAlong(_, _)
StateAlong(os, m) ==
    IF m = 0 THEN PsiInit
    ELSE Collapse(ApplyUnitary(StateAlong(os, m - 1)), MeasuredQubit, os[m])

\* C17: the values a trajectory has recorded are the expectations on the
\* successive states of one realization: there are outcomes, one per step and
\* kept from step to step, such that the value recorded at step s is <H> on the
\* state reached from |000> by s propagator applications and s collapses on
\* these outcomes.
C17_OneRealization ==
    \E os \in [1 .. MaxSteps -> {0, 1}] :
        \A k \in 1 .. Len(record) :
            LET s == StateAlong(os, record[k].step)
            IN  /\ s.n > 0
                /\ record[k].evs = Frac(ExpectH(s.v), s.n)

\* The least integer not below a / b, for b > 0
Ceil(a, b) == (a + b - 1) \div b

C19_BuiltOnce ==
    /\ (hamiltonian = H /\ propagator = U_dt)
    /\ [][/\ hamiltonian' = hamiltonian
          /\ propagator' = propagator
          /\ terms' = terms
          /\ dt' = dt]_vars

\* Witness of C19: the end of a run of two trajectories or more of two steps or
\* more, H and U_dt still as built.
C19_Witness ==
    /\ pc = "done"
    /\ num_trajectories >= 2
    /\ num_steps >= 2
    /\ Len(records) = num_trajectories
    /\ hamiltonian = H
    /\ propagator = U_dt

\* The orders in which M trajectories can be taken
Orders(M) == {f \in [1 .. M -> 1 .. M] : \A a, b \in 1 .. M : f[a] = f[b] => a = b}

\* The sum of the values recorded at step s by the first t trajectories of the
\* order f
RECURSIVE SumInOrder(_, _, _, _)
SumInOrder(rs, f, t, s) ==
    IF t = 0 THEN Zero ELSE RAdd(SumInOrder(rs, f, t - 1, s), rs[f[t]][s + 1].evs)

EigenBound == [num |-> -7, den |-> 5]

\* C21: H.H = 2 I, so the smallest eigenvalue of H is -sqrt(2); the energy at
\* which minimize returns, the lowest the ansatz reaches, is that eigenvalue, a
\* number below -7/5.
C21_FindsGroundState ==
    pc = "returned" =>
        /\ MatMul(hamiltonian, hamiltonian) = Scalar(2)
        /\ RLess(VqeEnergy(theta), EigenBound)

\* The magnitude of a fraction
Magnitude(x) == [num |-> Abs(x.num), den |-> x.den]

\* C22: the post-processing sets to zero exactly the parameters of magnitude
\* below 0.1 and leaves every other parameter, positive or negative, as it was.
C22_ZeroesSmallOnly ==
    [][(pc = "returned" /\ pc' = "post") =>
         \A k \in 1 .. NumParams :
             opt_params'[k] = IF RLess(Magnitude(opt_params[k]), Threshold)
                              THEN Zero ELSE opt_params[k]]_vars

\* The basis states on which v has a non-zero amplitude
Support(v) == {i \in Idx : v[i] # <<0, 0>>}

\* |000> and |110>
Span == {0, 6}

\* C23: every state of a trajectory lies in the span of |000> and |110>, the
\* state right after a measurement is one of the two, every value recorded is
\* exactly -1 or +1, and every averaged output value lies in [-1, 1].
C23_SpanAndValues ==
    /\ LET br == Branches(chain, Len(chain))
       IN  \A b \in 1 .. Len(br) :
               /\ Support(br[b]) \subseteq Span
               /\ (chain # << >> /\ chain[Len(chain)] = "M") =>
                      Cardinality(Support(br[b])) <= 1
    /\ \A k \in 1 .. Len(record) : record[k].evs \in {MinusOne, One}
    /\ pc = "done" =>
          \A s \in DOMAIN expvals :
              /\ ~RLess(expvals[s], MinusOne)
              /\ ~RLess(One, expvals[s])

=============================================================================
